---- MODULE Spec2Model ----
(***************************************************************************)
(* x402 gateway (chains/solana/programs/x402_gateway/src/lib.rs).          *)
(*                                                                         *)
(* The program's three handlers, reached through process_instruction, are  *)
(* operators over a world [data, lamports] of account contents; they are   *)
(* translated byte for byte from the source: account data and instruction  *)
(* data are sequences of bytes of the source's lengths, slices are the     *)
(* source's slices, and a slice past the end of an account's data is the   *)
(* panic the build produces.  One action per operation applies the handler *)
(* to the current accounts; the host keeps the handler's writes only when  *)
(* the handler returns Ok.                                                 *)
(***************************************************************************)
EXTENDS Integers, Sequences, FiniteSets, TLC

(***************************************************************************)
(* Bounds of the model.                                                    *)
(***************************************************************************)
\* Clock::get()?.unix_timestamp ranges over 1..MaxClock.
MaxClock == 3
\* lamports every user account holds in the initial state.
MaxLamports == 2

(***************************************************************************)
(* Program constants.                                                      *)
(***************************************************************************)
STATE_SIZE == 8 + 32 + 32 + 32
STATE_DISCRIMINATOR == <<120, 52, 48, 50, 95, 115, 109, 116>>
PROOF_LEN == 388
WITNESS_LEN == 76
PAY_AUTHORIZED_HEADER_LEN == 32 + 8 + 8
PAY_AUTHORIZED_DATA_LEN == PAY_AUTHORIZED_HEADER_LEN + PROOF_LEN + WITNESS_LEN
INITIALIZE_STATE == 0
SET_SMT_ROOT == 1
PAY_AUTHORIZED == 2

(***************************************************************************)
(* Bytes, slices and 64-bit integers.                                      *)
(***************************************************************************)
Fill(n, b) == [i \in 1..n |-> b]

\* Rust's s[a..b]: zero-based, half-open.  Defined when b <= Len(s).
Slice(s, a, b) == SubSeq(s, a + 1, b)

\* s[a..b] panics when b > s.len().
InRange(s, b) == b <= Len(s)

\* A 64-bit value is kept as three limbs <<bits 48..63, bits 24..47,
\* bits 0..23>>, so that each limb is a 32-bit integer.
from_le_bytes(b) ==
    << b[7] + 256 * b[8],
       b[4] + 256 * b[5] + 65536 * b[6],
       b[1] + 256 * b[2] + 65536 * b[3] >>

\* The bytes of a small number n < 2^16 as a little-endian u64.
to_le_bytes(n) == << n % 256, n \div 256, 0, 0, 0, 0, 0, 0 >>

\* Unsigned order on limbs.
U64Gt(a, b) ==
    \/ a[1] > b[1]
    \/ a[1] = b[1] /\ a[2] > b[2]
    \/ a[1] = b[1] /\ a[2] = b[2] /\ a[3] > b[3]

\* `x as i64` keeps the 64 bits; bit 63 becomes the sign.
IsNegI64(a) == a[1] >= 32768

\* Signed order of two i64 given by their bits (two's complement).
I64Gt(a, b) ==
    IF IsNegI64(a) # IsNegI64(b) THEN IsNegI64(b) ELSE U64Gt(a, b)

\* The bits of the clock's i64 timestamp t (0 <= t < 2^24 in the model).
I64OfClock(t) == << 0, 0, t >>

\* The value of a u64 as a number, when it is below 2^24; -1 stands for
\* "larger than any balance of the model".
U64Small(a) == IF a[1] = 0 /\ a[2] = 0 THEN a[3] ELSE -1

(***************************************************************************)
(* Identities.  A Pubkey is 32 bytes; the model's accounts are named by    *)
(* small numbers k whose key is 32 bytes of k.                             *)
(***************************************************************************)
KeyBytes(k) == Fill(32, k)

\* system_program::id() is the all-zero key.
SystemProgram == 0
Users == {1, 2}
Verifiers == {3, 4}

\* Pubkey::find_program_address(&[b"state", admin.key], program_id): a
\* deterministic, collision-free address per administrator.
find_program_address(admin) == admin + 10
Pdas == {find_program_address(a) : a \in Users}

\* Accounts that this program did not create: a zero-filled STATE_SIZE
\* account (as the unit tests build) and one whose owner filled it with a
\* discriminator, a root and a verifier identity of its own choosing.
ZeroAccount == 20
ForgedAccount == 21
StateKeys == Pdas \cup {ZeroAccount, ForgedAccount}

ZeroRoot == Fill(32, 0)
RootA == Fill(32, 1)
\* differs from RootA in its last byte only
RootB == [i \in 1..32 |-> IF i = 32 THEN 2 ELSE 1]
Roots == {ZeroRoot, RootA, RootB}

ForgedData ==
    STATE_DISCRIMINATOR \o KeyBytes(2) \o RootB \o KeyBytes(4)

(***************************************************************************)
(* State.                                                                  *)
(***************************************************************************)
VARIABLES
    data,       \* account key -> the account's data bytes
    lamports,   \* account key -> the account's balance
    clock,      \* the Clock sysvar's unix_timestamp
    committed,  \* history: record key -> the root of the last successful
                \* SetSmtRoot on it, or <<>> when there was none
    last        \* the invocation just executed: its inputs, result, and
                \* the cross-program invocations it made, in order

vars == << data, lamports, clock, committed, last >>

World == [data |-> data, lamports |-> lamports]

Handle(k, s) == [key |-> k, is_signer |-> s]

\* A handler's outcome: its result, the accounts as it left them, and the
\* cross-program invocations it issued.
Outcome(res, w, calls) ==
    [res |-> res, data |-> w.data, lamports |-> w.lamports, calls |-> calls]

Call(kind, program, d, accs, from, to, amount, ok) ==
    [kind |-> kind, program |-> program, data |-> d, accounts |-> accs,
     from |-> from, to |-> to, amount |-> amount, ok |-> ok]

\* dst[a..b].copy_from_slice(src)
copy_from_slice(dst, a, b, src) ==
    [i \in 1..Len(dst) |-> IF a < i /\ i <= b THEN src[i - a] ELSE dst[i]]

(***************************************************************************)
(* The system program, as the handlers use it.                             *)
(***************************************************************************)
\* rent.minimum_balance(STATE_SIZE), in the model's unit of lamports
minimum_balance == 1

\* system_instruction::create_account: fails when the new account is in use
\* or the funder cannot pay; otherwise allocates `space` zero bytes.
CreateAccountOk(w, from, to, amount) ==
    /\ Len(w.data[to]) = 0
    /\ w.lamports[to] = 0
    /\ w.lamports[from] >= amount

create_account(w, from, to, amount, space) ==
    [data |-> [w.data EXCEPT ![to] = Fill(space, 0)],
     lamports |-> [w.lamports EXCEPT ![from] = @ - amount, ![to] = @ + amount]]

\* system_instruction::transfer of a u64 amount.
TransferOk(w, from, amount) ==
    /\ U64Small(amount) >= 0
    /\ w.lamports[from] >= U64Small(amount)

transfer(w, from, to, amount) ==
    [data |-> w.data,
     lamports |-> [w.lamports EXCEPT ![from] = @ - U64Small(amount),
                                     ![to] = @ + U64Small(amount)]]

(***************************************************************************)
(* process_initialize                                                      *)
(***************************************************************************)
\* The admin identity and the verifier identity written into each other's
\* field.
WriteRecordFieldsSwapped(state_data, admin_key, init_data) ==
    LET d1 == copy_from_slice(state_data, 0, 8, STATE_DISCRIMINATOR)
        d2 == copy_from_slice(d1, 8, 40, init_data)
        d3 == copy_from_slice(d2, 40, 72, Fill(32, 0))
    IN  copy_from_slice(d3, 72, 104, KeyBytes(admin_key))

\* lines 116-120: the four writes into the freshly allocated record
WriteRecord(state_data, admin_key, init_data) ==
    LET d1 == copy_from_slice(state_data, 0, 8, STATE_DISCRIMINATOR)
        d2 == copy_from_slice(d1, 8, 40, KeyBytes(admin_key))
        d3 == copy_from_slice(d2, 40, 72, Fill(32, 0))
    IN  copy_from_slice(d3, 72, 104, init_data)

\* The handler with the length of the initialization data checked after
\* the signer and the derived address instead of first.
InitializeLengthCheckedLast(w, accounts, init_data) ==
    IF Len(accounts) < 3 THEN Outcome("NotEnoughAccountKeys", w, <<>>)
    ELSE
      LET admin == accounts[1]
          state_account == accounts[2]
          rent == minimum_balance
          call(ok) == Call("create_account", SystemProgram, <<>>,
                           << admin, state_account, accounts[3] >>,
                           admin.key, state_account.key, rent, ok)
      IN
        IF ~admin.is_signer THEN Outcome("MissingRequiredSignature", w, <<>>)
        ELSE IF state_account.key # find_program_address(admin.key)
          THEN Outcome("InvalidStatePda", w, <<>>)
        ELSE IF Len(init_data) # 32
          THEN Outcome("InvalidDataLength", w, <<>>)
        ELSE IF ~CreateAccountOk(w, admin.key, state_account.key, rent)
          THEN Outcome("CreateAccountFailed", w, << call(FALSE) >>)
        ELSE
          LET w1 == create_account(w, admin.key, state_account.key, rent,
                                   STATE_SIZE)
              w2 == [w1 EXCEPT !.data[state_account.key] =
                        WriteRecord(@, admin.key, init_data)]
          IN  Outcome("Ok", w2, << call(TRUE) >>)

process_initialize(w, accounts, init_data) ==
    IF Len(init_data) # 32 THEN Outcome("InvalidDataLength", w, <<>>)
    ELSE IF Len(accounts) < 3 THEN Outcome("NotEnoughAccountKeys", w, <<>>)
    ELSE
      LET admin == accounts[1]
          state_account == accounts[2]
          state_pda == find_program_address(admin.key)
          rent == minimum_balance
          call(ok) == Call("create_account", SystemProgram, <<>>,
                           << admin, state_account, accounts[3] >>,
                           admin.key, state_account.key, rent, ok)
      IN
        IF ~admin.is_signer THEN Outcome("MissingRequiredSignature", w, <<>>)
        ELSE IF state_account.key # state_pda
          THEN Outcome("InvalidStatePda", w, <<>>)
        ELSE IF ~CreateAccountOk(w, admin.key, state_account.key, rent)
          THEN Outcome("CreateAccountFailed", w, << call(FALSE) >>)
        ELSE
          LET w1 == create_account(w, admin.key, state_account.key, rent,
                                   STATE_SIZE)
              w2 == [w1 EXCEPT !.data[state_account.key] =
                        WriteRecord(@, admin.key, init_data)]
          IN  Outcome("Ok", w2, << call(TRUE) >>)

(***************************************************************************)
(* process_set_smt_root                                                    *)
(***************************************************************************)
\* The derived-address check left out.
PdaCheckSkipped(state_account, admin) == TRUE

\* lines 142-146: state_account.key == state_pda
IsStatePda(state_account, admin) ==
    state_account.key = find_program_address(admin.key)

\* The root written over the admin field.
WriteRootMisplaced(state_data, d) == copy_from_slice(state_data, 8, 40, d)

\* The root written over the verifier identity.
WriteRootOverVerifier(state_data, d) ==
    copy_from_slice(state_data, 72, 104, d)

\* The root written, and the verifier identity zeroed with it.
WriteRootClearsVerifier(state_data, d) ==
    copy_from_slice(copy_from_slice(state_data, 40, 72, d),
                    72, 104, Fill(32, 0))

\* line 153: state_data[40..72].copy_from_slice(data)
WriteRoot(state_data, d) == copy_from_slice(state_data, 40, 72, d)

process_set_smt_root(w, accounts, d) ==
    IF Len(d) # 32 THEN Outcome("InvalidDataLength", w, <<>>)
    ELSE IF Len(accounts) < 2 THEN Outcome("NotEnoughAccountKeys", w, <<>>)
    ELSE
      LET admin == accounts[1]
          state_account == accounts[2]
          state_data == w.data[state_account.key]
      IN
        IF ~admin.is_signer THEN Outcome("MissingRequiredSignature", w, <<>>)
        ELSE IF ~IsStatePda(state_account, admin)
          THEN Outcome("InvalidStatePda", w, <<>>)
        ELSE IF ~InRange(state_data, 8) THEN Outcome("Panic", w, <<>>)
        ELSE IF Slice(state_data, 0, 8) # STATE_DISCRIMINATOR
          THEN Outcome("InvalidStateAccount", w, <<>>)
        ELSE IF ~InRange(state_data, 72) THEN Outcome("Panic", w, <<>>)
        ELSE Outcome("Ok",
                     [w EXCEPT !.data[state_account.key] = WriteRoot(@, d)],
                     <<>>)

(***************************************************************************)
(* process_pay_authorized                                                  *)
(***************************************************************************)
proof_start == PAY_AUTHORIZED_HEADER_LEN
proof_end == proof_start + PROOF_LEN

\* The amount read from the bytes of auth_expiry.
AmountFromExpiryBytes(d) == from_le_bytes(Slice(d, 40, 48))

amount_of(d) == from_le_bytes(Slice(d, 32, 40))
auth_expiry_of(d) == from_le_bytes(Slice(d, 40, 48))
proof_data(d) == Slice(d, proof_start, proof_end)
witness_data(d) == Slice(d, proof_end, proof_end + WITNESS_LEN)
witness_smt_root(d) == Slice(witness_data(d), 12, 44)
stored_smt_root(state_data) == Slice(state_data, 40, 72)
configured_verifier(state_data) == Slice(state_data, 72, 104)
\* The whole payload, header included, handed to the verifier.
WholePayloadToVerifier(d) == d

verifier_data(d) == proof_data(d) \o witness_data(d)

\* The root comparison left out.
RootCheckSkipped(witness_root, stored_root) == TRUE

\* The comparison stopping one byte short.
RootsMatchShort(witness_root, stored_root) ==
    SubSeq(witness_root, 1, 31) = SubSeq(stored_root, 1, 31)

\* line 201: witness_smt_root != stored_smt_root
RootsMatch(witness_root, stored_root) == witness_root = stored_root

\* Expiry already at the instant auth_expiry itself (>= for >).
ExpiredAtExpiry(now, auth_expiry) ==
    \/ I64Gt(I64OfClock(now), auth_expiry)
    \/ I64OfClock(now) = auth_expiry

\* line 191: now > auth_expiry as i64
Expired(now, auth_expiry) == I64Gt(I64OfClock(now), auth_expiry)

\* The same with the verifier's answer not consulted before the transfer.
VerifierAnswerIgnored(w, payer, recipient, system_program, zk_verifier, d, vok) ==
    LET verify(ok) == Call("verify", zk_verifier.key,
                           Slice(d, PAY_AUTHORIZED_HEADER_LEN,
                                 PAY_AUTHORIZED_DATA_LEN),
                           <<>>, 0, 0, <<0, 0, 0>>, ok)
        amount == from_le_bytes(Slice(d, 32, 40))
        pay(ok) == Call("transfer", SystemProgram, <<>>,
                        << payer, recipient, system_program >>,
                        payer.key, recipient.key, amount, ok)
    IN
      IF ~TransferOk(w, payer.key, amount)
        THEN Outcome("TransferFailed", w, << verify(vok), pay(FALSE) >>)
      ELSE Outcome("Ok", transfer(w, payer.key, recipient.key, amount),
                   << verify(vok), pay(TRUE) >>)

\* The same with the transfer issued before the verifier is consulted.
TransferBeforeVerifier(w, payer, recipient, system_program, zk_verifier, d, vok) ==
    LET verify(ok) == Call("verify", zk_verifier.key,
                           Slice(d, PAY_AUTHORIZED_HEADER_LEN,
                                 PAY_AUTHORIZED_DATA_LEN),
                           <<>>, 0, 0, <<0, 0, 0>>, ok)
        amount == from_le_bytes(Slice(d, 32, 40))
        pay(ok) == Call("transfer", SystemProgram, <<>>,
                        << payer, recipient, system_program >>,
                        payer.key, recipient.key, amount, ok)
        paid == transfer(w, payer.key, recipient.key, amount)
    IN
      IF ~TransferOk(w, payer.key, amount)
        THEN Outcome("TransferFailed", w, << pay(FALSE) >>)
      ELSE IF ~vok
        THEN Outcome("VerifierFailed", paid, << pay(TRUE), verify(FALSE) >>)
      ELSE Outcome("Ok", paid, << pay(TRUE), verify(TRUE) >>)

\* lines 205-226: the verifier is invoked with no accounts; only when it
\* returns Ok is the transfer issued.  vok is the verifier's answer.
VerifyThenTransfer(w, payer, recipient, system_program, zk_verifier, d, vok) ==
    LET verify(ok) == Call("verify", zk_verifier.key, verifier_data(d),
                           <<>>, 0, 0, <<0, 0, 0>>, ok)
        amount == amount_of(d)
        pay(ok) == Call("transfer", SystemProgram, <<>>,
                        << payer, recipient, system_program >>,
                        payer.key, recipient.key, amount, ok)
    IN
      IF ~vok THEN Outcome("VerifierFailed", w, << verify(FALSE) >>)
      ELSE IF ~TransferOk(w, payer.key, amount)
        THEN Outcome("TransferFailed", w, << verify(TRUE), pay(FALSE) >>)
      ELSE Outcome("Ok", transfer(w, payer.key, recipient.key, amount),
                   << verify(TRUE), pay(TRUE) >>)

\* lines 178-203: the checks against the record, the clock and the witness
CheckAuthorization(state_data, zk_verifier, d, now) ==
    IF ~InRange(state_data, 8) THEN "Panic"
    ELSE IF Slice(state_data, 0, 8) # STATE_DISCRIMINATOR
      THEN "InvalidStateAccount"
    ELSE IF ~InRange(state_data, 104) THEN "Panic"
    ELSE IF KeyBytes(zk_verifier.key) # configured_verifier(state_data)
      THEN "InvalidZkVerifier"
    ELSE IF Expired(now, auth_expiry_of(d)) THEN "AuthorizationExpired"
    ELSE IF ~RootsMatch(witness_smt_root(d), stored_smt_root(state_data))
      THEN "SmtRootMismatch"
    ELSE "Ok"

process_pay_authorized(w, accounts, d, now, vok) ==
    IF Len(d) # PAY_AUTHORIZED_DATA_LEN
      THEN Outcome("InvalidDataLength", w, <<>>)
    ELSE IF Len(accounts) < 5 THEN Outcome("NotEnoughAccountKeys", w, <<>>)
    ELSE
      LET payer == accounts[1]
          recipient == accounts[2]
          state_account == accounts[3]
          zk_verifier == accounts[4]
          system_program == accounts[5]
          checked == CheckAuthorization(w.data[state_account.key],
                                        zk_verifier, d, now)
      IN
        IF ~payer.is_signer THEN Outcome("MissingRequiredSignature", w, <<>>)
        ELSE IF checked # "Ok" THEN Outcome(checked, w, <<>>)
        ELSE VerifyThenTransfer(w, payer, recipient, system_program,
                                zk_verifier, d, vok)

(***************************************************************************)
(* process_instruction                                                     *)
(***************************************************************************)
\* The dispatcher handing the handlers the instruction data with its tag.
DispatchKeepsTag(w, accounts, instruction_data, now, vok) ==
    IF Len(instruction_data) = 0
      THEN Outcome("InvalidInstructionData", w, <<>>)
    ELSE
      LET tag == instruction_data[1]
          rest == instruction_data
      IN
        IF tag = INITIALIZE_STATE THEN process_initialize(w, accounts, rest)
        ELSE IF tag = SET_SMT_ROOT THEN process_set_smt_root(w, accounts, rest)
        ELSE IF tag = PAY_AUTHORIZED
          THEN process_pay_authorized(w, accounts, rest, now, vok)
        ELSE Outcome("InvalidInstructionData", w, <<>>)

process_instruction(w, accounts, instruction_data, now, vok) ==
    IF Len(instruction_data) = 0
      THEN Outcome("InvalidInstructionData", w, <<>>)
    ELSE
      LET tag == instruction_data[1]
          rest == Tail(instruction_data)
      IN
        IF tag = INITIALIZE_STATE THEN process_initialize(w, accounts, rest)
        ELSE IF tag = SET_SMT_ROOT THEN process_set_smt_root(w, accounts, rest)
        ELSE IF tag = PAY_AUTHORIZED
          THEN process_pay_authorized(w, accounts, rest, now, vok)
        ELSE Outcome("InvalidInstructionData", w, <<>>)

(***************************************************************************)
(* Inputs of the invocations.                                              *)
(***************************************************************************)
\* Fewer account handles than any handler reads.
ShortAccounts == { <<>>, << Handle(1, TRUE) >> }

InitializeAccounts ==
    { << Handle(a, s), Handle(k, FALSE), Handle(SystemProgram, FALSE) >> :
        a \in Users, s \in BOOLEAN, k \in StateKeys } \cup ShortAccounts

SetSmtRootAccounts ==
    { << Handle(a, s), Handle(k, FALSE) >> :
        a \in Users, s \in BOOLEAN, k \in StateKeys } \cup ShortAccounts

\* User 1 pays user 2.
PayAuthorizedAccounts ==
    { << Handle(1, s), Handle(2, FALSE), Handle(k, FALSE),
         Handle(v, FALSE), Handle(SystemProgram, FALSE) >> :
        s \in BOOLEAN, k \in StateKeys, v \in Verifiers }
    \cup ShortAccounts

InitializeBodies == { KeyBytes(v) : v \in Verifiers } \cup { Fill(31, 0) }

SetSmtRootBodies == { RootA, RootB, Fill(31, 1) }

\* The parts of the payload that the checks of the handler do not read
\* (auth_id, amount, proof) vary together.
Variants == {0, 1}
AuthId(v) == Fill(32, 5 + v)
Amount(v) == to_le_bytes(1 + v)
Proof(v) == Fill(PROOF_LEN, v)
\* 2, and 2^63 (the smallest u64 whose bit 63 is set)
Expiries == { to_le_bytes(2), << 0, 0, 0, 0, 0, 0, 0, 128 >> }
Witness(root) == Fill(12, 7) \o root \o Fill(32, 9)

Payload(v, ex, rt) == AuthId(v) \o Amount(v) \o ex \o Proof(v) \o Witness(rt)

PayAuthorizedBodies ==
    { Payload(v, ex, rt) : v \in Variants, ex \in Expiries, rt \in Roots }
    \cup { Fill(10, 0), Fill(PAY_AUTHORIZED_DATA_LEN, 0) }

MalformedData == { <<>>, << 3 >>, << 255 >> \o RootA }

(***************************************************************************)
(* Initial state and actions.                                              *)
(***************************************************************************)
NoInvocation ==
    [accounts |-> <<>>, idata |-> <<>>, res |-> "None", calls |-> <<>>,
     dirty |-> FALSE, nth |-> 0]

Init ==
    /\ data = [k \in StateKeys |->
                 IF k = ZeroAccount THEN Fill(STATE_SIZE, 0)
                 ELSE IF k = ForgedAccount THEN ForgedData
                 ELSE <<>>]
    /\ lamports = [k \in Users \cup Pdas |->
                     IF k \in Users THEN MaxLamports ELSE 0]
    /\ clock = 1
    /\ committed = [k \in StateKeys |-> <<>>]
    /\ last = NoInvocation

\* The host runs the program on the accounts and keeps what it wrote only
\* when it returns Ok; any error discards the invocation's writes.  The
\* result is the next value of each variable the invocation may change.
Execute(accounts, instruction_data, vok) ==
    LET r == process_instruction(World, accounts, instruction_data, clock, vok)
        ok == r.res = "Ok"
    IN  [data |-> IF ok THEN r.data ELSE data,
         lamports |-> IF ok THEN r.lamports ELSE lamports,
         committed |->
             IF ok /\ instruction_data[1] = SET_SMT_ROOT
               THEN [committed EXCEPT ![accounts[2].key] =
                                         Tail(instruction_data)]
               ELSE committed,
         last |-> [accounts |-> accounts, idata |-> instruction_data,
                   res |-> r.res, calls |-> r.calls,
                   dirty |-> (r.data # data \/ r.lamports # lamports),
                   nth |-> 1]]

InitializeState ==
    \E accounts \in InitializeAccounts, body \in InitializeBodies :
        LET post == Execute(accounts, << INITIALIZE_STATE >> \o body, TRUE)
        IN  /\ last = NoInvocation
            /\ data' = post.data
            /\ lamports' = post.lamports
            /\ committed' = post.committed
            /\ last' = post.last
            /\ UNCHANGED clock

SetSmtRoot ==
    \E accounts \in SetSmtRootAccounts, body \in SetSmtRootBodies :
        LET post == Execute(accounts, << SET_SMT_ROOT >> \o body, TRUE)
        IN  /\ last = NoInvocation
            /\ data' = post.data
            /\ lamports' = post.lamports
            /\ committed' = post.committed
            /\ last' = post.last
            /\ UNCHANGED clock

PayAuthorized ==
    \E accounts \in PayAuthorizedAccounts, body \in PayAuthorizedBodies,
       vok \in BOOLEAN :
        LET post == Execute(accounts, << PAY_AUTHORIZED >> \o body, vok)
        IN  /\ last = NoInvocation
            /\ data' = post.data
            /\ lamports' = post.lamports
            /\ committed' = post.committed
            /\ last' = post.last
            /\ UNCHANGED clock

Malformed ==
    \E accounts \in ShortAccounts, instruction_data \in MalformedData :
        LET post == Execute(accounts, instruction_data, TRUE)
        IN  /\ last = NoInvocation
            /\ data' = post.data
            /\ lamports' = post.lamports
            /\ committed' = post.committed
            /\ last' = post.last
            /\ UNCHANGED clock

\* A PayAuthorized that succeeded and has been submitted once.
Resubmittable(l) ==
    /\ l # NoInvocation
    /\ l.res = "Ok"
    /\ l.idata[1] = PAY_AUTHORIZED
    /\ l.nth = 1

\* The caller of a successful PayAuthorized submits the same instruction
\* data with the same account handles once more.
Resubmit ==
    \E vok \in BOOLEAN :
        LET post == Execute(last.accounts, last.idata, vok)
        IN  /\ Resubmittable(last)
            /\ data' = post.data
            /\ lamports' = post.lamports
            /\ committed' = post.committed
            /\ last' = [post.last EXCEPT !.nth = 2]
            /\ UNCHANGED clock

\* The invocation has returned to its caller; invocations are serialized.
Return ==
    /\ last # NoInvocation
    /\ last' = NoInvocation
    /\ UNCHANGED << data, lamports, clock, committed >>

Tick ==
    /\ last = NoInvocation \/ Resubmittable(last)
    /\ clock < MaxClock
    /\ clock' = clock + 1
    /\ UNCHANGED << data, lamports, committed, last >>

Next ==
    \/ InitializeState
    \/ SetSmtRoot
    \/ PayAuthorized
    \/ Malformed
    \/ Resubmit
    \/ Return
    \/ Tick

Spec == Init /\ [][Next]_vars

(***************************************************************************)
(* Vocabulary of the properties.  A step that executes an invocation sets  *)
(* last to the invocation's record; the accounts before the invocation are *)
(* the unprimed data and lamports.                                         *)
(***************************************************************************)
IsInvocation(l, tag) ==
    l # NoInvocation /\ Len(l.idata) > 0 /\ l.idata[1] = tag

InvocationStep == last' # last /\ last' # NoInvocation

PayStep == InvocationStep /\ IsInvocation(last', PAY_AUTHORIZED)
SetRootStep == InvocationStep /\ IsInvocation(last', SET_SMT_ROOT)
InitStep == InvocationStep /\ IsInvocation(last', INITIALIZE_STATE)

Body(l) == Tail(l.idata)

\* The record bytes carry the discriminator.
DiscriminatorValid(rec) ==
    Len(rec) >= 8 /\ SubSeq(rec, 1, 8) = STATE_DISCRIMINATOR

\* t > the unsigned 64-bit number whose little-endian bytes are e (t < 2^24)
TimeAfter(t, e) ==
    /\ \A i \in 4..8 : e[i] = 0
    /\ t > e[1] + 256 * e[2] + 65536 * e[3]

\* The cross-program invocations of a kind, as positions in l.calls.
CallsOf(l, kind) == { i \in 1..Len(l.calls) : l.calls[i].kind = kind }

(***************************************************************************)
(* C1.  PayAuthorized checks, in this order, body length = 512, payer is   *)
(* signer, discriminator valid, verifier handle = stored verifier          *)
(* identity, current time <= auth_expiry, witness root = stored root; the  *)
(* error returned is that of the first failing check, and a failing check  *)
(* means no verifier call and no transfer.  A body length other than 512   *)
(* gives InvalidDataLength whatever handles are supplied.                  *)
(***************************************************************************)
FirstFailingCheck(body, accounts, rec, now) ==
    IF Len(body) # 512 THEN "InvalidDataLength"
    ELSE IF ~accounts[1].is_signer THEN "MissingRequiredSignature"
    ELSE IF ~DiscriminatorValid(rec) THEN "InvalidStateAccount"
    ELSE IF SubSeq(rec, 73, 104) # KeyBytes(accounts[4].key)
      THEN "InvalidZkVerifier"
    ELSE IF TimeAfter(now, SubSeq(body, 41, 48)) THEN "AuthorizationExpired"
    ELSE IF SubSeq(body, 449, 480) # SubSeq(rec, 41, 72)
      THEN "SmtRootMismatch"
    ELSE "Ok"

C1_ChecksInOrder ==
    [][ PayStep /\ (Len(Body(last')) # 512 \/ Len(last'.accounts) = 5) =>
          LET e == FirstFailingCheck(Body(last'), last'.accounts,
                                     data[last'.accounts[3].key], clock)
          IN  e # "Ok" =>
                /\ last'.res = e
                /\ last'.calls = <<>>
                /\ lamports' = lamports ]_vars

(***************************************************************************)
(* C2.  In PayAuthorized the transfer is issued only after the verifier    *)
(* was invoked in the same invocation and returned success; a failing      *)
(* verifier fails the operation without a transfer; the verifier and the   *)
(* transfer are each invoked at most once.                                 *)
(***************************************************************************)
C2_TransferOnlyAfterVerifier ==
    IsInvocation(last, PAY_AUTHORIZED) =>
      /\ \A i \in CallsOf(last, "transfer") :
           \E j \in CallsOf(last, "verify") : j < i /\ last.calls[j].ok
      /\ (\E j \in CallsOf(last, "verify") : ~last.calls[j].ok) =>
           last.res # "Ok" /\ CallsOf(last, "transfer") = {}
      /\ Cardinality(CallsOf(last, "verify")) <= 1
      /\ Cardinality(CallsOf(last, "transfer")) <= 1
      /\ last.res = "Ok" => CallsOf(last, "transfer") # {}

\* A payment that went through: the verifier answered Ok, then the transfer.
C2_Witness ==
    /\ IsInvocation(last, PAY_AUTHORIZED)
    /\ last.res = "Ok"
    /\ Len(last.calls) = 2
    /\ last.calls[1].kind = "verify" /\ last.calls[1].ok
    /\ last.calls[2].kind = "transfer" /\ last.calls[2].ok

(***************************************************************************)
(* C3.  As claimed: a PayAuthorized that reaches the verifier embeds a     *)
(* root previously committed to the supplied record with SetSmtRoot, and   *)
(* no payment is admitted against a record to which no root has been       *)
(* committed.  Stated here for the records created by InitializeState.     *)
(***************************************************************************)
ReachedVerifier(l) == IsInvocation(l, PAY_AUTHORIZED) /\ l.calls # <<>>

C3_RootWasCommitted ==
    ReachedVerifier(last) /\ last.accounts[3].key \in Pdas =>
      committed[last.accounts[3].key] # <<>>

(***************************************************************************)
(* C3, amended.  A PayAuthorized that reaches the verifier or transfers    *)
(* value embeds, in witness bytes [12,44), the bytes [40,72) of the        *)
(* supplied record account; for a record created by InitializeState these  *)
(* are the root last committed with SetSmtRoot or, when none has been      *)
(* committed, the 32 zero bytes written by InitializeState.                *)
(***************************************************************************)
C3_RootIsStoredRoot ==
    [][ PayStep /\ (last'.calls # <<>> \/ lamports' # lamports) =>
          LET k == last'.accounts[3].key
              embedded == SubSeq(Body(last'), 449, 480)
          IN  /\ embedded = SubSeq(data[k], 41, 72)
              /\ k \in Pdas =>
                   embedded = IF committed[k] = <<>> THEN Fill(32, 0)
                              ELSE committed[k] ]_vars

\* A payment against a record whose root was committed with SetSmtRoot.
C3_Witness ==
    /\ ReachedVerifier(last)
    /\ last.res = "Ok"
    /\ last.accounts[3].key \in Pdas
    /\ committed[last.accounts[3].key] = RootB

(***************************************************************************)
(* C4.  A PayAuthorized that passes the length, signer, discriminator,     *)
(* verifier-identity and expiry checks fails with SmtRootMismatch if and   *)
(* only if payload bytes [448,480) differ from the record's bytes [40,72), *)
(* whatever the proof bytes, auth_id and amount are.                       *)
(***************************************************************************)
EarlierErrors ==
    { "InvalidDataLength", "NotEnoughAccountKeys", "MissingRequiredSignature",
      "Panic", "InvalidStateAccount", "InvalidZkVerifier",
      "AuthorizationExpired" }

C4_MismatchIffRootsDiffer ==
    [][ PayStep /\ last'.res \notin EarlierErrors =>
          (last'.res = "SmtRootMismatch" <=>
             SubSeq(Body(last'), 449, 480) #
               SubSeq(data[last'.accounts[3].key], 41, 72)) ]_vars

\* Rejected for a root that differs from the stored one in its last byte.
C4_Witness ==
    /\ IsInvocation(last, PAY_AUTHORIZED)
    /\ last.res = "SmtRootMismatch"
    /\ SubSeq(Body(last), 449, 480) = RootA
    /\ SubSeq(data[last.accounts[3].key], 41, 72) = RootB

(***************************************************************************)
(* C5.  With all other checks passing, PayAuthorized fails with            *)
(* AuthorizationExpired if and only if the current time is greater than    *)
(* the unsigned 64-bit auth_expiry of the payload.                         *)
(***************************************************************************)
OtherChecksPass(l, rec) ==
    /\ Len(Body(l)) = 512
    /\ Len(l.accounts) = 5
    /\ l.accounts[1].is_signer
    /\ DiscriminatorValid(rec)
    /\ Len(rec) = 104
    /\ SubSeq(rec, 73, 104) = KeyBytes(l.accounts[4].key)
    /\ SubSeq(Body(l), 449, 480) = SubSeq(rec, 41, 72)

C5_ExpiredIffTimeAfterExpiry ==
    [][ /\ PayStep
        /\ Len(last'.accounts) = 5
        /\ last'.accounts[3].key \in Pdas
        /\ OtherChecksPass(last', data[last'.accounts[3].key])
        => (last'.res = "AuthorizationExpired" <=>
              TimeAfter(clock, SubSeq(Body(last'), 41, 48))) ]_vars

(***************************************************************************)
(* C6.  The commitment check compares against the root most recently       *)
(* committed: once SetSmtRoot has replaced the root, a PayAuthorized that  *)
(* passes the earlier checks fails with SmtRootMismatch exactly when its   *)
(* witness embeds another root than the one last committed.                *)
(***************************************************************************)
C6_LatestRootDecides ==
    /\ \A k \in Pdas :
         committed[k] # <<>> =>
           Len(data[k]) = 104 /\ SubSeq(data[k], 41, 72) = committed[k]
    /\ ( /\ IsInvocation(last, PAY_AUTHORIZED)
         /\ last.res \notin EarlierErrors
         /\ last.accounts[3].key \in Pdas
         /\ committed[last.accounts[3].key] # <<>> )
       => (last.res = "SmtRootMismatch" <=>
             SubSeq(Body(last), 449, 480) # committed[last.accounts[3].key])

\* After the initial zero root was replaced by RootA, a witness that still
\* embeds the zero root is rejected.
C6_Witness ==
    /\ IsInvocation(last, PAY_AUTHORIZED)
    /\ last.res = "SmtRootMismatch"
    /\ last.accounts[3].key \in Pdas
    /\ committed[last.accounts[3].key] = RootA
    /\ SubSeq(Body(last), 449, 480) = Fill(32, 0)

(***************************************************************************)
(* C7.  PayAuthorized with a 512-byte payload, a signer payer and a        *)
(* verifier handle that differs from bytes [72,104) of the supplied        *)
(* record returns InvalidZkVerifier, whatever else the payload and the     *)
(* record contain (the test: a zero-filled 104-byte record and an all-zero *)
(* payload).                                                               *)
(***************************************************************************)
C7_UntrustedVerifier ==
    [][ /\ PayStep
        /\ Len(Body(last')) = 512
        /\ Len(last'.accounts) = 5
        /\ last'.accounts[1].is_signer
        /\ Len(data[last'.accounts[3].key]) = 104
        /\ SubSeq(data[last'.accounts[3].key], 73, 104) #
             KeyBytes(last'.accounts[4].key)
        => last'.res = "InvalidZkVerifier" ]_vars

(***************************************************************************)
(* C8.  Every invocation is all-or-nothing: when any step of a handler     *)
(* fails (a check, the account allocation, the verifier, the transfer      *)
(* after a successful verification), every record and every balance is     *)
(* what it was before, and the handler itself had written nothing when it  *)
(* failed; no record is ever partly written and no payment partly applied. *)
(***************************************************************************)
WholeRecords ==
    \A k \in Pdas :
      data[k] = <<>> \/ (Len(data[k]) = STATE_SIZE /\ DiscriminatorValid(data[k]))

LamportsConserved ==
    lamports[1] + lamports[2] + lamports[11] + lamports[12] = 2 * MaxLamports

C8_AllOrNothing ==
    /\ [](WholeRecords /\ LamportsConserved)
    /\ [][ InvocationStep /\ last'.res # "Ok" =>
             /\ data' = data
             /\ lamports' = lamports
             /\ ~last'.dirty ]_vars

\* The transfer failed after the verifier had answered Ok.
C8_Witness ==
    /\ IsInvocation(last, PAY_AUTHORIZED)
    /\ last.res = "TransferFailed"
    /\ Len(last.calls) = 2
    /\ last.calls[1].ok

(***************************************************************************)
(* C9.  The record of administrator A changes only in a successful         *)
(* SetSmtRoot in which A is a signer and the record handle is derive(A):   *)
(* no invocation signed only by another administrator, and no              *)
(* PayAuthorized or InitializeState, changes the root of A's initialized   *)
(* record.                                                                 *)
(***************************************************************************)
C9_RootChangesOnlyByItsAdmin ==
    [][ \A a \in Users :
          LET k == find_program_address(a)
          IN  DiscriminatorValid(data[k]) /\ data'[k] # data[k] =>
                /\ IsInvocation(last', SET_SMT_ROOT)
                /\ last'.res = "Ok"
                /\ last'.accounts[1] = Handle(a, TRUE)
                /\ last'.accounts[2].key = k ]_vars

\* Administrator 2 signs a SetSmtRoot aimed at the initialized record of
\* administrator 1 and is refused.
C9_Witness ==
    /\ IsInvocation(last, SET_SMT_ROOT)
    /\ Len(Body(last)) = 32
    /\ last.accounts = << Handle(2, TRUE), Handle(11, FALSE) >>
    /\ DiscriminatorValid(data[11])
    /\ last.res = "InvalidStatePda"

(***************************************************************************)
(* C10.  Once a record has been created its discriminator stays valid and  *)
(* its admin and verifier_identity keep the values written at creation     *)
(* (the signing administrator and the 32 bytes of initialization data),    *)
(* whatever InitializeState, SetSmtRoot and PayAuthorized invocations      *)
(* follow; it never returns to uninitialized and is never partly           *)
(* populated.                                                              *)
(***************************************************************************)
FullyPopulated(a) ==
    LET rec == data[find_program_address(a)]
    IN  rec = <<>> \/ ( /\ Len(rec) = STATE_SIZE
                        /\ DiscriminatorValid(rec)
                        /\ SubSeq(rec, 9, 40) = KeyBytes(a) )

C10_RecordIdentityIsFixed ==
    /\ [](\A a \in Users : FullyPopulated(a))
    /\ [][ \A k \in Pdas :
             /\ data[k] # <<>> =>
                  /\ Len(data'[k]) = STATE_SIZE
                  /\ SubSeq(data'[k], 1, 40) = SubSeq(data[k], 1, 40)
                  /\ SubSeq(data'[k], 73, 104) = SubSeq(data[k], 73, 104)
             /\ data[k] = <<>> /\ data'[k] # <<>> =>
                  /\ IsInvocation(last', INITIALIZE_STATE)
                  /\ last'.res = "Ok"
                  /\ SubSeq(data'[k], 73, 104) = Body(last') ]_vars

\* The administrator of an existing record, whose root has been rotated,
\* invokes InitializeState again with another verifier identity.
C10_Witness ==
    /\ IsInvocation(last, INITIALIZE_STATE)
    /\ Len(Body(last)) = 32
    /\ Len(last.accounts) = 3
    /\ last.accounts[1] = Handle(1, TRUE)
    /\ last.accounts[2].key = 11
    /\ committed[11] # <<>>
    /\ SubSeq(data[11], 73, 104) # Body(last)
    /\ last.res = "CreateAccountFailed"

(***************************************************************************)
(* C11.  SetSmtRoot checks, in this order, body length = 32 (whatever      *)
(* handles are supplied), administrator is signer, record handle =         *)
(* derive(administrator), record discriminator valid; the error returned   *)
(* is that of the first failing check and the record is left unchanged.    *)
(* On the derived address of an administrator whose record was never       *)
(* created the result is InvalidStateAccount.                              *)
(***************************************************************************)
SetRootFirstFailingCheck(body, accounts, rec) ==
    IF Len(body) # 32 THEN "InvalidDataLength"
    ELSE IF ~accounts[1].is_signer THEN "MissingRequiredSignature"
    ELSE IF accounts[2].key # find_program_address(accounts[1].key)
      THEN "InvalidStatePda"
    ELSE IF ~DiscriminatorValid(rec) THEN "InvalidStateAccount"
    ELSE "Ok"

C11_SetRootChecksInOrder ==
    [][ SetRootStep /\ (Len(Body(last')) # 32 \/ Len(last'.accounts) = 2) =>
          LET e == SetRootFirstFailingCheck(
                     Body(last'), last'.accounts,
                     IF Len(last'.accounts) = 2
                       THEN data[last'.accounts[2].key] ELSE <<>>)
          IN  e # "Ok" => last'.res = e /\ data' = data ]_vars

(***************************************************************************)
(* C12.  A successful SetSmtRoot sets the smt_root of the target record to *)
(* exactly the 32 supplied bytes and leaves unchanged that record's        *)
(* discriminator, admin and verifier identity, every other account's       *)
(* data, and all balances.                                                 *)
(***************************************************************************)
C12_SetRootWritesOnlyTheRoot ==
    [][ SetRootStep /\ last'.res = "Ok" =>
          LET k == last'.accounts[2].key
          IN  /\ Len(Body(last')) = 32
              /\ Len(data[k]) = STATE_SIZE
              /\ data'[k] = SubSeq(data[k], 1, 40) \o Body(last')
                              \o SubSeq(data[k], 73, 104)
              /\ \A j \in (DOMAIN data) \ {k} : data'[j] = data[j]
              /\ lamports' = lamports ]_vars

\* Administrator 2 has set RootB while administrator 1's record exists.
C12_Witness ==
    /\ IsInvocation(last, SET_SMT_ROOT)
    /\ last.res = "Ok"
    /\ Len(last.accounts) = 2
    /\ last.accounts[2].key = find_program_address(2)
    /\ Body(last) = RootB
    /\ data[find_program_address(2)] =
         STATE_DISCRIMINATOR \o KeyBytes(2) \o RootB \o KeyBytes(4)
    /\ data[find_program_address(1)] # <<>>

(***************************************************************************)
(* C13.  PayAuthorized never writes a record: whether it succeeds or       *)
(* fails, all account data is the same after the invocation as before.     *)
(* On success its only effect is one transfer, from the payer handle to    *)
(* the recipient handle, of exactly the little-endian u64 in payload bytes *)
(* [32,40); on failure no balance changes.                                 *)
(***************************************************************************)
\* Payload bytes [32,40) as a number, when it is below 2^24.
AmountLE(body) == body[33] + 256 * body[34] + 65536 * body[35]

C13_PayOnlyTransfers ==
    [][ PayStep =>
          /\ data' = data
          /\ last'.res # "Ok" => lamports' = lamports
          /\ last'.res = "Ok" =>
               LET body == Body(last')
                   payer == last'.accounts[1].key
                   recipient == last'.accounts[2].key
                   t == CallsOf(last', "transfer")
               IN  /\ \A i \in 36..40 : body[i] = 0
                   /\ lamports' =
                        [lamports EXCEPT ![payer] = @ - AmountLE(body),
                                         ![recipient] = @ + AmountLE(body)]
                   /\ Cardinality(t) = 1
                   /\ \A i \in t :
                        /\ last'.calls[i].from = payer
                        /\ last'.calls[i].to = recipient
                        /\ last'.calls[i].amount = << 0, 0, AmountLE(body) >>
                   /\ CallsOf(last', "create_account") = {} ]_vars

\* A payment of 2 has moved the payer's whole balance to the recipient.
C13_Witness ==
    /\ IsInvocation(last, PAY_AUTHORIZED)
    /\ last.res = "Ok"
    /\ last.nth = 1
    /\ AmountLE(Body(last)) = 2
    /\ lamports[1] = 0
    /\ lamports[2] = 4

(***************************************************************************)
(* C14.  InitializeState fails with MissingRequiredSignature whenever the  *)
(* administrator handle is not a signer, for any target address (derived   *)
(* or not) and any length of the initialization data (32 or not), and it   *)
(* creates no record.                                                      *)
(***************************************************************************)
C14_NonSignerAlwaysMissingSignature ==
    [][ /\ InitStep
        /\ Len(last'.accounts) = 3
        /\ ~last'.accounts[1].is_signer
        => /\ last'.res = "MissingRequiredSignature"
           /\ data' = data
           /\ lamports' = lamports ]_vars

(***************************************************************************)
(* C15.  InitializeState invoked by a signer administrator with            *)
(* initialization data whose length is not 32 fails with                   *)
(* InvalidDataLength for any target address, derived from the              *)
(* administrator or not, and creates no record.                            *)
(***************************************************************************)
C15_SignerBadLengthIsInvalidLength ==
    [][ /\ InitStep
        /\ Len(last'.accounts) = 3
        /\ last'.accounts[1].is_signer
        /\ Len(Body(last')) # 32
        => /\ last'.res = "InvalidDataLength"
           /\ last'.calls = <<>>
           /\ data' = data
           /\ lamports' = lamports ]_vars

\* As in the test: a signer, 31 bytes, a target that is not the derived
\* address of the administrator.
C15_Witness ==
    /\ IsInvocation(last, INITIALIZE_STATE)
    /\ Len(last.accounts) = 3
    /\ last.accounts[1].is_signer
    /\ last.accounts[2].key # find_program_address(last.accounts[1].key)
    /\ Len(Body(last)) = 31
    /\ last.res = "InvalidDataLength"

(***************************************************************************)
(* C16.  A successful InitializeState by signer administrator A with 32    *)
(* bytes V creates, at derive(A) and nowhere else, the record              *)
(* (discriminator, admin = A, smt_root = 32 zero bytes, verifier = V).     *)
(* An InitializeState by an administrator whose record exists, with the    *)
(* same or another V, fails and leaves every record, a rotated root        *)
(* included, unchanged.                                                    *)
(***************************************************************************)
C16_InitializeCreatesOnce ==
    /\ [][ InitStep /\ last'.res = "Ok" =>
             LET a == last'.accounts[1]
                 k == last'.accounts[2].key
             IN  /\ a.is_signer
                 /\ k = find_program_address(a.key)
                 /\ data[k] = <<>>
                 /\ Len(Body(last')) = 32
                 /\ data' = [data EXCEPT ![k] =
                               STATE_DISCRIMINATOR \o KeyBytes(a.key)
                                 \o Fill(32, 0) \o Body(last')] ]_vars
    /\ [][ /\ InitStep
           /\ Len(last'.accounts) = 3
           /\ data[find_program_address(last'.accounts[1].key)] # <<>>
           => /\ last'.res # "Ok"
              /\ data' = data
              /\ lamports' = lamports ]_vars

\* A second InitializeState, naming another verifier, on a record whose
\* root has been rotated: rejected by create_account, the record as it was.
C16_Witness ==
    /\ IsInvocation(last, INITIALIZE_STATE)
    /\ Len(last.accounts) = 3
    /\ last.accounts[1].is_signer
    /\ last.accounts[2].key = find_program_address(last.accounts[1].key)
    /\ last.res = "CreateAccountFailed"
    /\ Len(Body(last)) = 32
    /\ LET rec == data[last.accounts[2].key]
       IN  /\ rec = STATE_DISCRIMINATOR \o KeyBytes(last.accounts[1].key)
                      \o RootA \o KeyBytes(3)
           /\ Body(last) = KeyBytes(4)

(***************************************************************************)
(* C17.  Whenever PayAuthorized invokes the external verifier, the program *)
(* invoked is the one whose key is the record's stored verifier identity,  *)
(* the data passed is exactly 464 bytes, payload bytes [48,436) (proof)    *)
(* followed by payload bytes [436,512) (witness), and no account handles   *)
(* are passed; auth_id, amount and auth_expiry are not part of it.         *)
(***************************************************************************)
C17_VerifierInput ==
    \A i \in CallsOf(last, "verify") :
      /\ IsInvocation(last, PAY_AUTHORIZED)
      /\ Len(last.accounts) = 5
      /\ LET c == last.calls[i]
             body == Body(last)
             rec == data[last.accounts[3].key]
         IN  /\ KeyBytes(c.program) = SubSeq(rec, 73, 104)
             /\ c.data = SubSeq(body, 49, 436) \o SubSeq(body, 437, 512)
             /\ Len(c.data) = 464
             /\ c.accounts = <<>>

\* The verifier of administrator 1's record was invoked and rejected the
\* second proof.
C17_Witness ==
    /\ IsInvocation(last, PAY_AUTHORIZED)
    /\ last.res = "VerifierFailed"
    /\ Len(last.accounts) = 5
    /\ last.accounts[3].key = find_program_address(1)
    /\ CallsOf(last, "verify") = {1}
    /\ last.calls[1].data = Proof(1) \o Witness(RootA)

(***************************************************************************)
(* C18.  The dispatcher fails with InvalidInstructionData, with no handler *)
(* run and no state change, if and only if the instruction data is empty   *)
(* or its first byte is not 0, 1 or 2; otherwise it hands exactly the      *)
(* bytes after the first to InitializeState (0), SetSmtRoot (1) or         *)
(* PayAuthorized (2) and returns that handler's result unchanged.          *)
(***************************************************************************)
IsMalformed(idata) ==
    idata = <<>> \/ idata[1] \notin {INITIALIZE_STATE, SET_SMT_ROOT,
                                     PAY_AUTHORIZED}

\* The outcome of the handler of a tag on the body, the verifier answering vok.
HandlerOutcome(tag, accounts, body, vok) ==
    IF tag = INITIALIZE_STATE THEN process_initialize(World, accounts, body)
    ELSE IF tag = SET_SMT_ROOT
      THEN process_set_smt_root(World, accounts, body)
    ELSE process_pay_authorized(World, accounts, body, clock, vok)

C18_Dispatch ==
    [][ InvocationStep =>
          LET l == last'
          IN  /\ (l.res = "InvalidInstructionData") <=> IsMalformed(l.idata)
              /\ IsMalformed(l.idata) =>
                   /\ l.calls = <<>>
                   /\ ~l.dirty
                   /\ data' = data
                   /\ lamports' = lamports
              /\ ~IsMalformed(l.idata) =>
                   \E vok \in BOOLEAN :
                     LET h == HandlerOutcome(l.idata[1], l.accounts,
                                             Tail(l.idata), vok)
                     IN  /\ l.res = h.res
                         /\ l.calls = h.calls
                         /\ h.res = "Ok" =>
                              data' = h.data /\ lamports' = h.lamports
                         /\ h.res # "Ok" =>
                              data' = data /\ lamports' = lamports ]_vars

\* An unknown tag in front of 32 bytes that SetSmtRoot would accept.
C18_Witness ==
    /\ last # NoInvocation
    /\ last.idata = << 255 >> \o RootA
    /\ last.res = "InvalidInstructionData"
    /\ data[find_program_address(1)] # <<>>

(***************************************************************************)
(* C19.  The program keeps no record of used auth_id values: when a        *)
(* PayAuthorized has succeeded and the byte-identical instruction is       *)
(* submitted again with the same handles while current time <= auth_expiry *)
(* and the record is unchanged, it passes every check of the handler       *)
(* again, the verifier is invoked again on the same input, and, the        *)
(* verifier and the transfer succeeding again, the same amount is          *)
(* transferred a second time.                                              *)
(***************************************************************************)
ResubmitStep == Resubmittable(last) /\ InvocationStep

C19_ReplayIsAccepted ==
    [][ ResubmitStep =>
          LET body == Body(last)
              payer == last.accounts[1].key
              recipient == last.accounts[2].key
          IN  /\ last'.idata = last.idata
              /\ last'.accounts = last.accounts
              /\ last'.nth = 2
              /\ ~TimeAfter(clock, SubSeq(body, 41, 48)) =>
                   /\ last'.res \in {"Ok", "VerifierFailed", "TransferFailed"}
                   /\ Len(last'.calls) >= 1
                   /\ last'.calls[1].kind = "verify"
                   /\ last'.calls[1].data = last.calls[1].data
                   /\ (last'.calls[1].ok /\ lamports[payer] >= AmountLE(body))
                        => /\ last'.res = "Ok"
                           /\ last'.calls = last.calls
                           /\ lamports' =
                                [lamports EXCEPT
                                   ![payer] = @ - AmountLE(body),
                                   ![recipient] = @ + AmountLE(body)] ]_vars

\* The same authorization of 1 has been paid twice, the second time at the
\* instant of its expiry.
C19_Witness ==
    /\ IsInvocation(last, PAY_AUTHORIZED)
    /\ last.nth = 2
    /\ last.res = "Ok"
    /\ AmountLE(Body(last)) = 1
    /\ lamports[1] = 0
    /\ lamports[2] = 4
    /\ clock = 2
    /\ SubSeq(Body(last), 41, 48) = to_le_bytes(2)

(***************************************************************************)
(* C20.  PayAuthorized transfers value only when the supplied record       *)
(* handle is a State Record created by InitializeState, located at         *)
(* derive(admin) for the admin stored in it; an account that merely        *)
(* carries the discriminator, a root and a verifier identity of the        *)
(* caller's choosing does not let a payment through.                       *)
(***************************************************************************)
C20_PaysOnlyAgainstGatewayRecord ==
    IsInvocation(last, PAY_AUTHORIZED) /\ CallsOf(last, "transfer") # {} =>
      /\ Len(last.accounts) = 5
      /\ last.accounts[3].key \in Pdas
      /\ \E a \in Users :
           /\ last.accounts[3].key = find_program_address(a)
           /\ SubSeq(data[last.accounts[3].key], 9, 40) = KeyBytes(a)

====
